---- MODULE Spec2Model ----
(***************************************************************************)
(* Model of the parameter-extraction repository: the Chroma vector-store   *)
(* adapter (LLM_interaction/rag.py), the section segmenter                 *)
(* (text_extractor/docint.py), the RAG pipeline (rag_pipeline.py) and the  *)
(* prompt-refinement loop with its result ledger and OCR text cache        *)
(* (prompt_refiner.py).                                                    *)
(***************************************************************************)
EXTENDS Integers, Sequences, FiniteSets, TLC

(***************************************************************************)
(* Bounds of the model.                                                    *)
(***************************************************************************)
\* longest list of sections handed to one add_paper_data call; chunk
\* indices range over 0 .. MaxSections - 1
MaxSections == 2
\* largest n_results asked of retrieve_from_paper
MaxK == 2
\* most element references in the sections of one analysed document
MaxRefs == 3
\* most sections in one analysed document
MaxSecs == 2
\* most refinement runs started over one ledger
MaxRuns == 2
\* most rows of the ledger the model follows
MaxRows == 3
MaxExtracts == 4
MaxLedgerRows == 5

\* paper identifiers (the pipeline uses file names)
PaperIds == {"p1", "p2"}
\* chunk texts
Texts == {"a", "b"}
\* query texts (the target parameters)
QueryLists == {<<"q1", "q2">>}

Indices == 0 .. (MaxSections - 1)

\* an optional list argument: None, or the list given
NoneArg == [none |-> TRUE, list |-> <<>>]
Given(list) == [none |-> FALSE, list |-> list]

SeqsUpTo(S, n) == UNION {[1 .. m -> S] : m \in 0 .. n}

Range(s) == {s[i] : i \in DOMAIN s}

VARIABLES
    \* ---- ChromaRetriever and the persistent Chroma client ----
    collection,   \* the named collection of the persistent client:
                  \* [exists, recs], recs a set of [id, document, paper_id]
    handle,       \* whether the retriever object has its `collection` attribute
    ret,          \* what the last call did and returned
    sinceCreate,  \* history: what this retriever did since its create_db
    onExisting,   \* what the installed chromadb release does with an add of
                  \* an id the collection holds: "raise" or "ignore"
    \* ---- TextExtractor ----
    result_object, \* the analysis result: [paragraphs, sections]
    segOut,        \* what section_chunks did: [called, err, chunks]
    \* ---- rag_pipeline.main ----
    pc,            \* where main is
    listing,       \* os.listdir(folder_path)
    rag_n,         \* the rag_n argument
    fileIdx,       \* position of the running for loop in the listing
    secIdx,        \* position of the inner loop over the sections
    sectionsOf,    \* per file, what section_chunks returned for it
    data,          \* the list `data`
    titles,        \* the list `titles`
    table,         \* rag_results.csv: [written, rows]
    calls,         \* history: the retrieval and generation calls issued
    \* ---- prompt_refiner.main ----
    rpc,               \* where main is
    runs,              \* how many runs were started
    ledgerFile,        \* the ledger CSV on disk: [cols, rows]
    results_df,        \* the in-memory table: [cols, rows]
    loadedRows,        \* history: how many rows the run loaded
    current_iteration, \* the iteration number of the run
    paramIdx,          \* position of the loop over the parameters
    docIdx,            \* position of the loop over true_param_df
    improved_prompt,   \* the prompt generated for the parameter
    pdf_text,          \* the text extract_text_from_pdf returned
    extracted_value,   \* what extract_parameters returned
    judgement,         \* the two console inputs: [success_fail, confusion]
    cacheFiles,        \* per paper, the content of its cache file or Absent
    testOutputDir,     \* whether the directory test_output exists
    pdfPresent,        \* the papers whose PDF is in the directory
    ocrCalls,          \* history: per paper, the OCR analyses completed since
                       \* its cache file last did not exist by deletion
    recordedAt,        \* history: per run started, the iteration number it
                       \* wrote a record under, 0 while it has written none
    \* ---- a TextExtractor instance ----
    text_extractor,    \* its fields: [text, tables, full_text,
                       \* extraction_performed]
    analysed,          \* history: the documents the instance has analysed,
                       \* in call order
    \* ---- utils/evaluate_confusion_metrics.py ----
    csv,               \* the rows of the ledger file the script reads, each
                       \* [Iteration, Confusion]
    evaluation,        \* what the last run of the script did and computed
    \* ---- a ParameterExtractor instance (two_stage_pipeline.py) ----
    extractor,         \* its attributes: [file_path, has_article_text,
                       \* article_text, first_response, refined_response,
                       \* extraction_performed]
    outcome,           \* the last method called on it and what it raised
    progress,          \* history: how far the steps have completed in order
    output             \* the directory export_parameters writes to

ragVars == <<collection, handle, ret, sinceCreate, onExisting>>
segVars == <<result_object, segOut>>
pipeVars == <<pc, listing, rag_n, fileIdx, secIdx, sectionsOf, data, titles,
              table, calls>>

refVars == <<rpc, runs, ledgerFile, results_df, loadedRows, current_iteration,
             paramIdx, docIdx, improved_prompt, pdf_text, extracted_value,
             judgement, cacheFiles, testOutputDir, pdfPresent, ocrCalls,
             recordedAt>>

extVars == <<text_extractor, analysed>>
metVars == <<csv, evaluation>>
twoVars == <<extractor, outcome, progress, output>>
toolVars == <<extVars, metVars, twoVars>>

vars == <<collection, handle, ret, sinceCreate, onExisting, result_object, segOut,
          pc, listing, rag_n, fileIdx, secIdx, sectionsOf, data, titles, table,
          calls, rpc, runs, ledgerFile, results_df, loadedRows, current_iteration,
          paramIdx, docIdx, improved_prompt, pdf_text, extracted_value,
          judgement, cacheFiles, testOutputDir, pdfPresent, ocrCalls,
          recordedAt, text_extractor, analysed, csv, evaluation, extractor,
          outcome, progress, output>>

(***************************************************************************)
(* text_extractor/docint.py: section_chunks                                *)
(***************************************************************************)

\* the contents of the paragraphs the analysis may find, in document order
ParagraphContents == <<"p0", "p1", "p2">>
\* the newline character
NL == "\n"
\* how many sections an analysed document has
SectionCounts == 0 .. MaxSecs
\* the kinds of element a section lists: "/paragraphs/n", "/tables/n"
ElementKinds == {"paragraphs", "tables"}

\* decimal numerals, as digit sequences, and int() of one
Numeral(n) == IF n < 10 THEN <<n>> ELSE <<n \div 10, n % 10>>
RECURSIVE IntOf(_)
IntOf(digits) ==
    IF digits = <<>> THEN 0
    ELSE 10 * IntOf(SubSeq(digits, 1, Len(digits) - 1)) + digits[Len(digits)]

\* an element string "/kind/n" as str.split("/") sees it: ["", kind, "n"]
Element(kind, n) == <<<<>>, kind, Numeral(n)>>
\* paragraph.split("/")[-1]
LastPart(element) == element[Len(element)]

\* element references an analysis may produce: an index up to one past the
\* last paragraph any document has
Refs == {Element(kind, n) : kind \in ElementKinds, n \in 0 .. Len(ParagraphContents)}

\* the inner loop with the lookup guarded: an absent index is skipped
RECURSIVE SectionContentsSkipping(_, _, _, _)
SectionContentsSkipping(paragraphs, elements, j, contents) ==
    IF j > Len(elements) THEN [err |-> FALSE, contents |-> contents]
    ELSE LET paragraph_index == IntOf(LastPart(elements[j]))
         IN  IF paragraph_index >= Len(paragraphs)
             THEN SectionContentsSkipping(paragraphs, elements, j + 1, contents)
             ELSE SectionContentsSkipping(paragraphs, elements, j + 1,
                      contents \o <<paragraphs[paragraph_index + 1], NL>>)

\* the inner loop walking the elements from the last to the first
RECURSIVE SectionContentsReversed(_, _, _, _)
SectionContentsReversed(paragraphs, elements, j, contents) ==
    IF j > Len(elements) THEN [err |-> FALSE, contents |-> contents]
    ELSE LET paragraph_index == IntOf(LastPart(elements[Len(elements) + 1 - j]))
         IN  IF paragraph_index >= Len(paragraphs)
             THEN [err |-> TRUE, contents |-> <<>>]
             ELSE SectionContentsReversed(paragraphs, elements, j + 1,
                      contents \o <<paragraphs[paragraph_index + 1], NL>>)

\* the inner loop of section_chunks (lines 125-128): contents after the
\* elements from position j on, or an IndexError
RECURSIVE SectionContents(_, _, _, _)
SectionContents(paragraphs, elements, j, contents) ==
    IF j > Len(elements) THEN [err |-> FALSE, contents |-> contents]
    ELSE LET paragraph_index == IntOf(LastPart(elements[j]))
         IN  IF paragraph_index >= Len(paragraphs)
             THEN [err |-> TRUE, contents |-> <<>>]
             ELSE SectionContents(paragraphs, elements, j + 1,
                      contents \o <<paragraphs[paragraph_index + 1], NL>>)

\* TextExtractor.section_chunks: the outer loop from section i on
RECURSIVE SectionChunksFrom(_, _, _)
SectionChunksFrom(result, i, sections) ==
    IF i > Len(result.sections) THEN [err |-> FALSE, chunks |-> sections]
    ELSE LET c == SectionContents(result.paragraphs, result.sections[i], 1, <<>>)
         IN  IF c.err THEN [err |-> TRUE, chunks |-> <<>>]
             ELSE SectionChunksFrom(result, i + 1, Append(sections, c.contents))

section_chunks(result) == SectionChunksFrom(result, 1, <<>>)

\* a list of references cut into s sections at the given places
CutAt(flat, cuts, s) ==
    [i \in 1 .. s |->
        SubSeq(flat, (IF i = 1 THEN 0 ELSE cuts[i - 1]) + 1,
                     IF i = s THEN Len(flat) ELSE cuts[i])]

\* the places at which a list of m references is cut into s sections
Cuts(m, s) ==
    {c \in [1 .. s - 1 -> 0 .. m] : \A i \in 1 .. s - 2 : c[i] <= c[i + 1]}

\* result is an analysis result extract_text may store: some of the
\* paragraphs, and sections listing at most MaxRefs references in all
IsAnalysisResult(result) ==
    \E n \in 0 .. Len(ParagraphContents), m \in 0 .. MaxRefs, s \in SectionCounts :
        \E flat \in [1 .. m -> Refs], cuts \in Cuts(m, s) :
            /\ s = 0 => m = 0
            /\ result = [paragraphs |-> SubSeq(ParagraphContents, 1, n),
                         sections |-> CutAt(flat, cuts, s)]

\* no analysis result yet, section_chunks not called
NoResult == [paragraphs |-> <<>>, sections |-> <<>>]
NotCalled == [called |-> FALSE, err |-> FALSE, chunks |-> <<>>]

SectionChunks ==
    /\ ~segOut.called
    /\ LET r == section_chunks(result_object)
       IN  segOut' = [called |-> TRUE, err |-> r.err, chunks |-> r.chunks]
    /\ UNCHANGED result_object

(***************************************************************************)
(* LLM_interaction/rag.py                                                  *)
(***************************************************************************)

\* f"paper{paper_id}section{i}"
SectionId(paper_id, i) == <<"paper", paper_id, "section", i>>

\* chromadb Collection.add as the adapter uses it: parallel lists of
\* documents, metadatas and ids.  An empty or ragged batch and a batch that
\* repeats an id are rejected.  An id the collection already holds is never
\* overwritten: depending on the chromadb release the call raises
\* (onExisting = "raise") or skips that id (onExisting = "ignore").
ChromaAdd(recs, documents, metadatas, ids) ==
    LET n == Len(ids)
        held == {r.id : r \in recs}
        fresh == {j \in 1 .. n : ids[j] \notin held}
    IN  IF n = 0 \/ Len(documents) # n \/ Len(metadatas) # n
        THEN [err |-> TRUE, recs |-> recs]
        ELSE IF Cardinality(Range(ids)) # n
        THEN [err |-> TRUE, recs |-> recs]
        ELSE IF fresh # 1 .. n /\ onExisting = "raise"
        THEN [err |-> TRUE, recs |-> recs]
        ELSE [err |-> FALSE,
              recs |-> recs \cup {[id |-> ids[j], document |-> documents[j],
                                   paper_id |-> metadatas[j].paper_id] : j \in fresh}]

\* chromadb Collection.query with a where filter, for one query text: the
\* n_results nearest of the records the filter keeps (all of them when there
\* are fewer).  Which ones are nearest is up to the embedding: any choice.
ChromaQueryChoices(recs, where, n_results) ==
    LET kept == {r \in recs : where.none \/ r.paper_id = where.paper_id}
        m == IF Cardinality(kept) < n_results THEN Cardinality(kept) ELSE n_results
    IN  {S \in SUBSET kept : Cardinality(S) = m}

\* ids made from the positions in the call whatever section_ids says
PaperSectionIdsEnumerated(paper_id, n, section_ids) ==
    [j \in 1 .. n |-> SectionId(paper_id, j - 1)]

\* the ids add_paper_data gives the chunks of one call
PaperSectionIds(paper_id, n, section_ids) ==
    IF section_ids.none
    THEN [j \in 1 .. n |-> SectionId(paper_id, j - 1)]
    ELSE [j \in 1 .. Len(section_ids.list) |->
              SectionId(paper_id, section_ids.list[j])]

\* the metadatas add_paper_data gives the chunks of one call
PaperMetadatas(paper_id, n) == [j \in 1 .. n |-> [paper_id |-> paper_id]]

\* ChromaRetriever.__init__: a new retriever object, no collection attribute
Construct ==
    /\ handle' = FALSE
    /\ ret' = [op |-> "init", err |-> FALSE]
    /\ sinceCreate' = [st |-> "other", paper_id |-> "", n |-> 0]
    /\ UNCHANGED <<collection, onExisting>>

\* create_db that creates without deleting first (get-or-create): what the
\* collection held stays
create_db_keeps ==
    /\ collection' = [exists |-> TRUE, recs |-> collection.recs]
    /\ handle' = TRUE
    /\ ret' = [op |-> "create_db", err |-> FALSE, existed |-> collection.exists,
               dropped |-> 0]
    /\ sinceCreate' = [st |-> "created", paper_id |-> "", n |-> 0]
    /\ UNCHANGED onExisting

\* ChromaRetriever.create_db
create_db ==
    /\ collection' = [exists |-> TRUE, recs |-> {}]
    /\ handle' = TRUE
    /\ ret' = [op |-> "create_db", err |-> FALSE, existed |-> collection.exists,
               dropped |-> Cardinality(collection.recs)]
    /\ sinceCreate' = [st |-> "created", paper_id |-> "", n |-> 0]
    /\ UNCHANGED onExisting

\* ChromaRetriever.add_paper_data
add_paper_data(sections, paper_id, section_ids) ==
    IF ~handle /\ ~collection.exists
    THEN \* get_collection raises: no such collection
         /\ ret' = [op |-> "add", err |-> TRUE]
         /\ sinceCreate' = [st |-> "other", paper_id |-> "", n |-> 0]
         /\ UNCHANGED <<collection, handle, onExisting>>
    ELSE LET n == Len(sections)
             ids == PaperSectionIds(paper_id, n, section_ids)
             res == ChromaAdd(collection.recs, sections,
                              PaperMetadatas(paper_id, n), ids)
         IN  /\ handle' = TRUE
             /\ collection' = [collection EXCEPT !.recs = res.recs]
             /\ ret' = IF res.err
                       THEN [op |-> "add", err |-> TRUE]
                       ELSE [op |-> "add", err |-> FALSE, paper_id |-> paper_id,
                             sections |-> sections, ids |-> ids,
                             section_ids |-> section_ids]
             /\ sinceCreate' = IF sinceCreate.st = "created" /\ ~res.err
                               THEN [st |-> "inserted", paper_id |-> paper_id, n |-> n]
                               ELSE [st |-> "other", paper_id |-> "", n |-> 0]
             /\ UNCHANGED onExisting

\* retrieve_from_paper that does not pass the where filter
retrieve_unfiltered(query, paper_id, n_results) ==
    IF ~handle
    THEN /\ ret' = [op |-> "retrieve", err |-> TRUE]
         /\ UNCHANGED <<collection, handle, sinceCreate, onExisting>>
    ELSE /\ \E results \in [1 .. Len(query) ->
                    ChromaQueryChoices(collection.recs,
                        [none |-> TRUE, paper_id |-> paper_id], n_results)] :
               ret' = [op |-> "retrieve", err |-> FALSE, paper_id |-> paper_id,
                       n_results |-> n_results, query |-> query, results |-> results]
         /\ UNCHANGED <<collection, handle, sinceCreate, onExisting>>

\* retrieve_from_paper that does not forward n_results: the query runs with
\* the default of 10
retrieve_default_n(query, paper_id, n_results) ==
    IF ~handle
    THEN /\ ret' = [op |-> "retrieve", err |-> TRUE]
         /\ UNCHANGED <<collection, handle, sinceCreate, onExisting>>
    ELSE /\ \E results \in [1 .. Len(query) ->
                    ChromaQueryChoices(collection.recs,
                        [none |-> FALSE, paper_id |-> paper_id], 10)] :
               ret' = [op |-> "retrieve", err |-> FALSE, paper_id |-> paper_id,
                       n_results |-> n_results, query |-> query, results |-> results]
         /\ UNCHANGED <<collection, handle, sinceCreate, onExisting>>

\* ChromaRetriever.retrieve_from_paper
retrieve_from_paper(query, paper_id, n_results) ==
    IF ~handle
    THEN \* self.collection: AttributeError
         /\ ret' = [op |-> "retrieve", err |-> TRUE]
         /\ UNCHANGED <<collection, handle, sinceCreate, onExisting>>
    ELSE /\ \E results \in [1 .. Len(query) ->
                    ChromaQueryChoices(collection.recs,
                        [none |-> FALSE, paper_id |-> paper_id], n_results)] :
               ret' = [op |-> "retrieve", err |-> FALSE, paper_id |-> paper_id,
                       n_results |-> n_results, query |-> query, results |-> results]
         /\ UNCHANGED <<collection, handle, sinceCreate, onExisting>>

\* the section_ids a caller passes with a list of n sections: None
\* (tests/test_rag.py:16), or, with a single section, the one-element list
\* [i] of its chunk index (rag_pipeline.py:58)
SectionIdArgs(n) ==
    {NoneArg} \cup (IF n = 1 THEN {Given(<<i>>) : i \in Indices} ELSE {})

AddPaperData ==
    \E sections \in SeqsUpTo(Texts, MaxSections), paper_id \in PaperIds :
        \E section_ids \in SectionIdArgs(Len(sections)) :
            add_paper_data(sections, paper_id, section_ids)

RetrieveFromPaper ==
    \E query \in QueryLists, paper_id \in PaperIds, n_results \in 1 .. MaxK :
        retrieve_from_paper(query, paper_id, n_results)

\* no collection yet, a retriever object just constructed
NoCollection == [exists |-> FALSE, recs |-> {}]
NoCall == [op |-> "init", err |-> FALSE]
NoHistory == [st |-> "other", paper_id |-> "", n |-> 0]

(***************************************************************************)
(* prompt_refiner.py: the result ledger, the OCR text cache and main       *)
(***************************************************************************)

\* The columns load_data_and_setup requires, in the order of the source.
required_columns ==
    <<"Prompt", "Model Name", "Parameter Name", "Paper Number",
      "Extracted Parameter", "True Parameter", "Success/Fail", "Confusion",
      "Iteration">>

\* A missing value of the in-memory table (pandas NaN) in a text column.
NaN == "<NaN>"
\* A missing value in the Iteration column, in memory (NaN) and in the file
\* (an empty field).
IterNaN == 0
\* The empty string load_data_and_setup puts in a missing Iteration column.
IterBlank == -1
\* The field texts read_csv takes for a missing value.
NaTexts == {"", "NA"}

\* read_csv on one field: the texts of NaTexts become NaN, a number is
\* parsed, any other text is kept.
ReadCell(col, v) ==
    IF col = "Iteration" THEN v
    ELSE IF v \in NaTexts THEN NaN ELSE v

\* to_csv on one cell: NaN and the empty string are written as an empty
\* field, a number in digits, any other text as it is.
WriteCell(col, v) ==
    IF col = "Iteration" THEN (IF v = IterBlank THEN IterNaN ELSE v)
    ELSE IF v = NaN THEN "" ELSE v

read_csv(file) ==
    [cols |-> file.cols,
     rows |-> [i \in 1 .. Len(file.rows) |->
                  [c \in file.cols |-> ReadCell(c, file.rows[i][c])]]]

to_csv(df) ==
    [cols |-> df.cols,
     rows |-> [i \in 1 .. Len(df.rows) |->
                  [c \in df.cols |-> WriteCell(c, df.rows[i][c])]]]

\* results_df[col] = "" for every required column the file lacks.
Backfill(df) ==
    LET cols == df.cols \cup Range(required_columns)
    IN  [cols |-> cols,
         rows |-> [i \in 1 .. Len(df.rows) |->
                      [c \in cols |->
                          IF c \in df.cols THEN df.rows[i][c]
                          ELSE IF c = "Iteration" THEN IterBlank ELSE ""]]]

IterationCells(df) == {df.rows[i]["Iteration"] : i \in 1 .. Len(df.rows)}

MaxOf(S) == CHOOSE m \in S : \A n \in S : n <= m

\* What the iteration number would be if it counted the rows.
IterationByCount(df) ==
    [err |-> FALSE, value |-> Len(df.rows) + 1]

\* The iteration number of the run, or the ValueError int("") raises when
\* the column holds the strings of the back-fill.
CurrentIteration(df) ==
    IF IterationCells(df) \subseteq {IterNaN}
    THEN [err |-> FALSE, value |-> 1]
    ELSE IF IterBlank \in IterationCells(df)
    THEN [err |-> TRUE, value |-> 0]
    ELSE [err |-> FALSE, value |-> MaxOf(IterationCells(df) \ {IterNaN}) + 1]

\* pd.concat([df, new_row]): the table update_csv_with_results returns and
\* writes.
Concat(df, result) == [cols |-> df.cols, rows |-> Append(df.rows, result)]

\* config/refiner_parameters.json and the rows of the true-parameter file.
refiner_parameters == <<"q1", "q2">>
true_param_rows == <<"p1", "p2">>
TrueParam(param, filename) == "12%"

\* generate_improved_prompt: the preamble, the parameter and the response
\* of the model, or "Not Found" when the call failed.
ImprovedPrompt(param) ==
    IF param = "q1" THEN "retrieval_instructions|q1|response"
    ELSE "retrieval_instructions|q2|response"
PromptOutcomes(param) == {ImprovedPrompt(param), "Not Found"}

\* extract_parameters: the response, or "NA" for an empty one.
ExtractionOutcomes == {"12%", "NA"}
\* What the person at the console types for the two questions: a verdict
\* and a label for a value, a verdict and a text that is no label for "NA".
ConsoleInputs(extracted) ==
    IF extracted = "NA"
    THEN {[success_fail |-> "Fail", confusion_level |-> "maybe"]}
    ELSE {[success_fail |-> "Success", confusion_level |-> "TP"]}
\* What the document-analysis service may return for a paper.
OcrOutputs == {"x", "y"}
Absent == "<absent>"

\* A row an earlier run wrote.
OldRow(it) ==
    [c \in Range(required_columns) |->
        IF c = "Iteration" THEN it
        ELSE IF c = "Prompt" THEN "retrieval_instructions|q1|response"
        ELSE IF c = "Model Name" THEN "gpt-4o-mini"
        ELSE IF c = "Parameter Name" THEN "q1"
        ELSE IF c = "Paper Number" THEN "p1"
        ELSE IF c = "Extracted Parameter" THEN "12%"
        ELSE IF c = "True Parameter" THEN "12%"
        ELSE IF c = "Success/Fail" THEN "Success"
        ELSE "TP"]

\* The columns of a ledger file older than the Confusion and Iteration
\* columns, and a row of such a file.
LegacyColumns == Range(required_columns) \ {"Confusion", "Iteration"}
LegacyRow == [c \in LegacyColumns |-> OldRow(1)[c]]

\* The ledger files a run may find.
InitialLedgers ==
    { [cols |-> Range(required_columns), rows |-> <<>>],
      [cols |-> Range(required_columns), rows |-> <<OldRow(4)>>],
      [cols |-> Range(required_columns) \ {"Confusion"},
       rows |-> <<[c \in Range(required_columns) \ {"Confusion"} |-> OldRow(1)[c]]>>],
      [cols |-> LegacyColumns, rows |-> <<>>],
      [cols |-> LegacyColumns, rows |-> <<LegacyRow>>] }

NoTableYet == [cols |-> {}, rows |-> <<>>]
NoJudgement == [success_fail |-> "", confusion_level |-> ""]
NoOcr == [p \in Range(true_param_rows) |-> 0]

Running == {"gen", "doc", "extract", "judge", "record"}

\* load_data_and_setup, at the start of main.
RefStart ==
    /\ recordedAt' = Append(recordedAt, 0)
    /\ rpc \in {"idle", "finished", "crashed"}
    /\ runs < MaxRuns
    /\ runs' = runs + 1
    /\ LET df == Backfill(read_csv(ledgerFile))
           it == CurrentIteration(df)
       IN  IF it.err
           THEN /\ rpc' = "crashed"
                /\ UNCHANGED <<results_df, loadedRows, current_iteration,
                               paramIdx>>
           ELSE /\ rpc' = "gen"
                /\ results_df' = df
                /\ loadedRows' = Len(df.rows)
                /\ current_iteration' = it.value
                /\ paramIdx' = 1
    \* a new process: the locals of main are not set yet
    /\ docIdx' = 0
    /\ improved_prompt' = ""
    /\ pdf_text' = ""
    /\ extracted_value' = ""
    /\ judgement' = NoJudgement
    /\ UNCHANGED <<ledgerFile, cacheFiles, testOutputDir, pdfPresent, ocrCalls>>

\* The head of the loop over the parameters: generate_improved_prompt.
RefGenPrompt ==
    /\ UNCHANGED recordedAt
    /\ rpc = "gen"
    /\ paramIdx <= Len(refiner_parameters)
    /\ improved_prompt' \in PromptOutcomes(refiner_parameters[paramIdx])
    /\ docIdx' = 1
    /\ rpc' = "doc"
    /\ UNCHANGED <<runs, ledgerFile, results_df, loadedRows, current_iteration,
                   paramIdx, pdf_text, extracted_value, judgement, cacheFiles,
                   testOutputDir, pdfPresent, ocrCalls>>

\* The loop over the parameters is exhausted: main returns.
RefFinish ==
    /\ UNCHANGED recordedAt
    /\ rpc = "gen"
    /\ paramIdx > Len(refiner_parameters)
    /\ rpc' = "finished"
    /\ UNCHANGED <<runs, ledgerFile, results_df, loadedRows, current_iteration,
                   paramIdx, docIdx, improved_prompt, pdf_text,
                   extracted_value, judgement, cacheFiles, testOutputDir,
                   pdfPresent, ocrCalls>>

\* The loop over the documents is exhausted: the next parameter.
RefNextParam ==
    /\ UNCHANGED recordedAt
    /\ rpc = "doc"
    /\ docIdx > Len(true_param_rows)
    /\ paramIdx' = paramIdx + 1
    /\ rpc' = "gen"
    /\ UNCHANGED <<runs, ledgerFile, results_df, loadedRows, current_iteration,
                   docIdx, improved_prompt, pdf_text, extracted_value,
                   judgement, cacheFiles, testOutputDir, pdfPresent, ocrCalls>>

\* The PDF of the row is not in the directory: continue.
RefSkipMissing ==
    /\ UNCHANGED recordedAt
    /\ rpc = "doc"
    /\ docIdx <= Len(true_param_rows)
    /\ true_param_rows[docIdx] \notin pdfPresent
    /\ docIdx' = docIdx + 1
    /\ UNCHANGED <<rpc, runs, ledgerFile, results_df, loadedRows,
                   current_iteration, paramIdx, improved_prompt, pdf_text,
                   extracted_value, judgement, cacheFiles, testOutputDir,
                   pdfPresent, ocrCalls>>

\* a write that lands in one file whatever the paper: every paper's cache
\* path leads to it
WriteCacheFileShared(files, paper_number, text) ==
    [p \in DOMAIN files |-> text]

\* open(cache_file, "w") and f.write(text), cache_file being the file named
\* after the paper in the cache directory
WriteCacheFile(files, paper_number, text) ==
    [files EXCEPT ![paper_number] = text]

\* extract_text_from_pdf: the cache file if there is one; else the analysis,
\* export_text (whose os.mkdir raises when test_output exists) and the
\* write of the cache file.
RefFetchText ==
    /\ UNCHANGED recordedAt
    /\ rpc = "doc"
    /\ docIdx <= Len(true_param_rows)
    /\ true_param_rows[docIdx] \in pdfPresent
    /\ Len(results_df.rows) < MaxRows
    /\ LET paper_number == true_param_rows[docIdx]
       IN  IF cacheFiles[paper_number] # Absent
           THEN /\ pdf_text' = cacheFiles[paper_number]
                /\ rpc' = "extract"
                /\ UNCHANGED <<cacheFiles, testOutputDir, ocrCalls>>
           ELSE \/ \* the constructor or the analysis raises
                   /\ rpc' = "crashed"
                   /\ UNCHANGED <<pdf_text, cacheFiles, testOutputDir,
                                  ocrCalls>>
                \/ \* the analysis completes
                   /\ ocrCalls' =
                          [ocrCalls EXCEPT ![paper_number] = @ + 1]
                   /\ IF testOutputDir
                      THEN /\ rpc' = "crashed"
                           /\ UNCHANGED <<pdf_text, cacheFiles, testOutputDir>>
                      ELSE \E text \in OcrOutputs :
                              /\ testOutputDir' = TRUE
                              /\ cacheFiles' =
                                     WriteCacheFile(cacheFiles, paper_number, text)
                              /\ pdf_text' = text
                              /\ rpc' = "extract"
    /\ UNCHANGED <<runs, ledgerFile, results_df, loadedRows, current_iteration,
                   paramIdx, docIdx, improved_prompt, extracted_value,
                   judgement, pdfPresent>>

\* extract_parameters: ask_GPT raises, or a response comes back.
RefExtract ==
    /\ UNCHANGED recordedAt
    /\ rpc = "extract"
    /\ \/ /\ rpc' = "crashed"
          /\ UNCHANGED extracted_value
       \/ /\ extracted_value' \in ExtractionOutcomes
          /\ rpc' = "judge"
    /\ UNCHANGED <<runs, ledgerFile, results_df, loadedRows, current_iteration,
                   paramIdx, docIdx, improved_prompt, pdf_text, judgement,
                   cacheFiles, testOutputDir, pdfPresent, ocrCalls>>

\* The two input() calls.
RefJudge ==
    /\ UNCHANGED recordedAt
    /\ rpc = "judge"
    /\ judgement' \in ConsoleInputs(extracted_value)
    /\ rpc' = "record"
    /\ UNCHANGED <<runs, ledgerFile, results_df, loadedRows, current_iteration,
                   paramIdx, docIdx, improved_prompt, pdf_text,
                   extracted_value, cacheFiles, testOutputDir, pdfPresent,
                   ocrCalls>>

\* The result dictionary main builds.
Result ==
    [c \in Range(required_columns) |->
        IF c = "Iteration" THEN current_iteration
        ELSE IF c = "Prompt" THEN improved_prompt
        ELSE IF c = "Model Name" THEN "gpt-4o-mini"
        ELSE IF c = "Parameter Name" THEN refiner_parameters[paramIdx]
        ELSE IF c = "Paper Number" THEN true_param_rows[docIdx]
        ELSE IF c = "Extracted Parameter" THEN extracted_value
        ELSE IF c = "True Parameter"
             THEN TrueParam(refiner_parameters[paramIdx], true_param_rows[docIdx])
        ELSE IF c = "Success/Fail" THEN judgement.success_fail
        ELSE judgement.confusion_level]

\* What update_csv_with_results would do if it wrote the new row only.
UpdateWritingNewRowOnly(df, result) ==
    [df |-> Concat(df, result),
     file |-> to_csv([cols |-> df.cols, rows |-> <<result>>])]

\* update_csv_with_results(df, csv_file, result): the table it returns and
\* the table it writes.
update_csv_with_results(df, result) ==
    [df |-> Concat(df, result), file |-> to_csv(Concat(df, result))]

\* What the loop would do if it wrote the record without asking the person.
RefRecordUnjudged ==
    /\ recordedAt' = [recordedAt EXCEPT ![runs] = current_iteration]
    /\ rpc = "judge"
    /\ LET upd == update_csv_with_results(results_df, Result)
       IN  /\ results_df' = upd.df
           /\ ledgerFile' = upd.file
    /\ docIdx' = docIdx + 1
    /\ rpc' = "doc"
    /\ UNCHANGED <<runs, loadedRows, current_iteration, paramIdx,
                   improved_prompt, pdf_text, extracted_value, judgement,
                   cacheFiles, testOutputDir, pdfPresent, ocrCalls>>

\* The tail of the loop body: the record is appended and the file rewritten.
RefRecord ==
    /\ recordedAt' = [recordedAt EXCEPT ![runs] = current_iteration]
    /\ rpc = "record"
    /\ LET upd == update_csv_with_results(results_df, Result)
       IN  /\ results_df' = upd.df
           /\ ledgerFile' = upd.file
    /\ docIdx' = docIdx + 1
    /\ rpc' = "doc"
    /\ UNCHANGED <<runs, loadedRows, current_iteration, paramIdx,
                   improved_prompt, pdf_text, extracted_value, judgement,
                   cacheFiles, testOutputDir, pdfPresent, ocrCalls>>

\* What df.to_csv leaves when the process dies during the write: the file
\* was opened for writing, which empties it, and only some of the rows of
\* the table have reached it (here none of them, or all but the new one).
InterruptedWrites(df) ==
    {[cols |-> df.cols, rows |-> SubSeq(to_csv(df).rows, 1, k)] :
        k \in {0, Len(df.rows) - 1}}

\* The process dies (kill, power loss, write error) while df.to_csv
\* rewrites the ledger file.
RefRecordInterrupted ==
    /\ UNCHANGED recordedAt
    /\ rpc = "record"
    /\ ledgerFile' \in InterruptedWrites(Concat(results_df, Result))
    /\ rpc' = "crashed"
    /\ UNCHANGED <<runs, results_df, loadedRows, current_iteration, paramIdx,
                   docIdx, improved_prompt, pdf_text, extracted_value,
                   judgement, cacheFiles, testOutputDir, pdfPresent, ocrCalls>>

\* Between two runs somebody deletes the cache file of a paper.
RefDeleteCache ==
    /\ UNCHANGED recordedAt
    /\ rpc \in {"finished", "crashed"}
    /\ runs < MaxRuns
    /\ \E p \in Range(true_param_rows) :
          /\ cacheFiles[p] # Absent
          /\ cacheFiles' = [cacheFiles EXCEPT ![p] = Absent]
          /\ ocrCalls' = [ocrCalls EXCEPT ![p] = 0]
    /\ UNCHANGED <<rpc, runs, ledgerFile, results_df, loadedRows,
                   current_iteration, paramIdx, docIdx, improved_prompt,
                   pdf_text, extracted_value, judgement, testOutputDir,
                   pdfPresent>>

\* prompt_refiner.main is not running and has left nothing behind.
RefIdle ==
    /\ rpc = "idle"
    /\ runs = 0
    /\ ledgerFile = NoTableYet
    /\ results_df = NoTableYet
    /\ loadedRows = 0
    /\ current_iteration = 0
    /\ paramIdx = 0
    /\ docIdx = 0
    /\ improved_prompt = ""
    /\ pdf_text = ""
    /\ extracted_value = ""
    /\ judgement = NoJudgement
    /\ cacheFiles = [p \in Range(true_param_rows) |-> Absent]
    /\ testOutputDir = FALSE
    /\ pdfPresent = {}
    /\ ocrCalls = NoOcr
    /\ recordedAt = <<>>

(***************************************************************************)
(* docint.py: TextExtractor.__init__ and extract_text                      *)
(***************************************************************************)

\* the PDFs an instance may be given
Pdfs == {"d1", "d2", "d3"}

\* what the layout analysis finds in each: the lines of its pages and its
\* tables
AnalysisOf(pdf_path) ==
    CASE pdf_path = "d1" -> [lines |-> <<"l1">>, tables |-> <<"t1">>]
      [] pdf_path = "d2" -> [lines |-> <<"l2", "l3">>, tables |-> <<"t2", "t3">>]
      [] OTHER -> [lines |-> <<"l4">>, tables |-> <<>>]

\* df.to_json(orient="records") of the table's cells
JsonOf(tbl) == <<"json", tbl>>

\* sep.join(items), as the sequence of its pieces
RECURSIVE Join(_, _)
Join(items, sep) ==
    IF Len(items) = 0 THEN <<>>
    ELSE IF Len(items) = 1 THEN <<items[1]>>
    ELSE <<items[1], sep>> \o Join(Tail(items), sep)

\* extracted_text: every line followed by a newline
RECURSIVE LinesText(_)
LinesText(lines) ==
    IF lines = <<>> THEN <<>> ELSE <<lines[1], NL>> \o LinesText(Tail(lines))

\* the fields __init__ sets
NewTextExtractor ==
    [text |-> <<>>, tables |-> <<>>, full_text |-> <<>>,
     extraction_performed |-> FALSE]

\* TextExtractor.extract_text on an analysis result (lines 62-85): the
\* lines become self.text, the tables are appended to self.tables, and
\* full_text is made of both
extract_text(self, result) ==
    LET text == LinesText(result.lines)
        tbls == self.tables \o
                    [i \in 1 .. Len(result.tables) |-> JsonOf(result.tables[i])]
    IN  [text |-> text,
         tables |-> tbls,
         full_text |-> text \o <<"\n\n\nTables:\n">> \o Join(tbls, "\n\n\n"),
         extraction_performed |-> TRUE]

\* TextExtractor(): a new instance
ConstructTextExtractor ==
    /\ text_extractor' = NewTextExtractor
    /\ analysed' = <<>>

\* extract_text(pdf_path) on the instance: reading the file or the analysis
\* raises and nothing is assigned, or the result is stored
ExtractText ==
    /\ Len(analysed) < MaxExtracts
    /\ \E pdf_path \in Pdfs :
          \/ UNCHANGED <<text_extractor, analysed>>
          \/ /\ text_extractor' = extract_text(text_extractor, AnalysisOf(pdf_path))
             /\ analysed' = Append(analysed, pdf_path)

\* no TextExtractor has been used
ExtIdle ==
    /\ text_extractor = NewTextExtractor
    /\ analysed = <<>>

(***************************************************************************)
(* utils/evaluate_confusion_metrics.py                                     *)
(***************************************************************************)

\* The four confusion labels.
ConfusionLabels == {"TP", "TN", "FP", "FN"}

\* the rows a ledger may hold: rows of iteration 2 with a label or another
\* text in the Confusion column, and rows of iteration 1
CsvRowKinds ==
    {[Iteration |-> 2, Confusion |-> l] : l \in ConfusionLabels \cup {"maybe"}}
        \cup {[Iteration |-> 1, Confusion |-> "TP"]}

\* what is typed at "Enter the iteration number to evaluate: ", as digits:
\* 1, 2, 3, or nothing
IterationInputs == {Numeral(1), Numeral(2), Numeral(3), <<>>}

RECURSIVE GCD(_, _)
GCD(a, b) == IF b = 0 THEN a ELSE GCD(b, a % b)

\* the quotient numerator / denominator of two counts, as a fraction in
\* lowest terms (the rounding of the float is left out)
Quotient(numerator, denominator) ==
    [num |-> numerator \div GCD(numerator, denominator),
     den |-> denominator \div GCD(numerator, denominator)]

\* float('nan')
NotANumber == [num |-> 0, den |-> 0]

\* a division that gives 0 for a zero denominator
divide_or_zero(numerator, denominator) ==
    IF denominator # 0 THEN Quotient(numerator, denominator) ELSE Quotient(0, 1)

safe_divide(numerator, denominator) ==
    IF denominator # 0 THEN Quotient(numerator, denominator) ELSE NotANumber

\* df[df["Iteration"] == iteration]
RowsOfIteration(df, iteration) == SelectSeq(df, LAMBDA r : r.Iteration = iteration)

\* df_current["Confusion"].value_counts().to_dict().get(label, 0)
ValueCount(df_current, label) ==
    Cardinality({i \in DOMAIN df_current : df_current[i].Confusion = label})

\* the Matthews coefficient: its numerator over the square root of the
\* product, kept as the product; not a number when the root is 0
Mcc(TP, TN, FP, FN) ==
    LET product == (TP + FP) * (TP + FN) * (TN + FP) * (TN + FN)
    IN  IF product # 0
        THEN [nan |-> FALSE, num |-> TP * TN - FP * FN, den_squared |-> product]
        ELSE [nan |-> TRUE, num |-> 0, den_squared |-> 0]

compute_confusion_matrix(df_current) ==
    LET TP == ValueCount(df_current, "TP")
        TN == ValueCount(df_current, "TN")
        FP == ValueCount(df_current, "FP")
        FN == ValueCount(df_current, "FN")
    IN  [TP |-> TP, TN |-> TN, FP |-> FP, FN |-> FN,
         sensitivity |-> safe_divide(TP, TP + FN),
         specificity |-> safe_divide(TN, TN + FP),
         precision |-> safe_divide(TP, TP + FP),
         accuracy |-> safe_divide(TP + TN, TP + TN + FP + FN),
         f1_score |-> safe_divide(2 * TP, 2 * TP + FP + FN),
         mcc |-> Mcc(TP, TN, FP, FN)]

\* the script has not been run
NotEvaluated ==
    [ran |-> FALSE, exited |-> FALSE, iteration |-> 0, compare_iterations |-> FALSE,
     metrics |-> compute_confusion_matrix(<<>>)]

\* sys.exit() before anything is computed
Exited ==
    [ran |-> TRUE, exited |-> TRUE, iteration |-> 0, compare_iterations |-> FALSE,
     metrics |-> compute_confusion_matrix(<<>>)]

\* load_confusion_data, then compute_confusion_matrix (lines 91-92): the
\* script leaves at an input that is no number and at an iteration without
\* rows; analyze_iteration_changes only prints
EvaluateIteration ==
    /\ \E iteration_input \in IterationInputs :
          IF iteration_input = <<>>
          THEN evaluation' = Exited
          ELSE LET iteration == IntOf(iteration_input)
                   df_current == RowsOfIteration(csv, iteration)
                   df_prev == RowsOfIteration(csv, iteration - 1)
               IN  IF df_current = <<>>
                   THEN evaluation' = Exited
                   ELSE evaluation' =
                            [ran |-> TRUE, exited |-> FALSE, iteration |-> iteration,
                             compare_iterations |-> df_prev # <<>>,
                             metrics |-> compute_confusion_matrix(df_current)]
    /\ UNCHANGED csv

\* the script is not in use
MetIdle ==
    /\ csv = <<>>
    /\ evaluation = NotEvaluated

(***************************************************************************)
(* two_stage_pipeline.py: ParameterExtractor                               *)
(***************************************************************************)

\* Python's None
None == "<None>"
\* what ask_GPT does: it raises, or returns message.content, a text or None
AskOutcomes == {"raise", "answer", None}
\* what the document analysis does: it raises, or completes
AnalysisOutcomes == {"raise", "done"}
\* no exception
NoError == ""

\* ParameterExtractor.__init__
NewParameterExtractor(file_path) ==
    [file_path |-> file_path, has_article_text |-> FALSE, article_text |-> <<>>,
     first_response |-> None, refined_response |-> None,
     extraction_performed |-> FALSE]

\* ParameterExtractor.extract_text: a new TextExtractor analyses the file
\* and its full_text becomes article_text
PE_extract_text(self, analysis) ==
    IF analysis = "raise"
    THEN [self |-> self, err |-> "Error"]
    ELSE [self |-> [self EXCEPT
                      !.has_article_text = TRUE,
                      !.article_text =
                          extract_text(NewTextExtractor,
                                       AnalysisOf(self.file_path)).full_text],
          err |-> NoError]

\* first_query without the hasattr test: reading self.article_text raises
\* AttributeError
first_query_unguarded(self, reply) ==
    IF ~self.has_article_text
    THEN [self |-> self, err |-> "AttributeError"]
    ELSE IF reply = "raise"
    THEN [self |-> self, err |-> "Error"]
    ELSE [self |-> [self EXCEPT !.first_response = reply], err |-> NoError]

\* ParameterExtractor.first_query
first_query(self, reply) ==
    IF ~self.has_article_text
    THEN [self |-> self, err |-> "RuntimeError"]
    ELSE IF reply = "raise"
    THEN [self |-> self, err |-> "Error"]
    ELSE [self |-> [self EXCEPT !.first_response = reply], err |-> NoError]

\* ParameterExtractor.refine_query
refine_query(self, reply) ==
    IF self.first_response = None
    THEN [self |-> self, err |-> "RuntimeError"]
    ELSE IF reply = "raise"
    THEN [self |-> self, err |-> "Error"]
    ELSE [self |-> [self EXCEPT !.refined_response = reply], err |-> NoError]

\* history: the steps completed in order so far (0 none, 1 the extraction,
\* 2 then the first query, 3 then the refine query), whether first_query
\* has returned a response, whether get_parameters has run to its end
NoProgress == [stage |-> 0, responded |-> FALSE, completed |-> FALSE]
AfterExtract(h) == [h EXCEPT !.stage = IF @ < 1 THEN 1 ELSE @]
AfterFirst(h, reply) ==
    [h EXCEPT !.stage = IF @ = 1 THEN 2 ELSE @,
              !.responded = @ \/ reply # None]
AfterRefine(h) == [h EXCEPT !.stage = IF @ = 2 THEN 3 ELSE @]

\* ParameterExtractor.get_parameters: the three steps one after the other,
\* an exception of a step ending the call, then the flag
get_parameters(self, h, analysis, reply1, reply2) ==
    LET e == PE_extract_text(self, analysis)
        q == first_query(e.self, reply1)
        r == refine_query(q.self, reply2)
    IN  IF e.err # NoError THEN [self |-> e.self, err |-> e.err, h |-> h]
        ELSE IF q.err # NoError
        THEN [self |-> q.self, err |-> q.err, h |-> AfterExtract(h)]
        ELSE IF r.err # NoError
        THEN [self |-> r.self, err |-> r.err,
              h |-> AfterFirst(AfterExtract(h), reply1)]
        ELSE [self |-> [r.self EXCEPT !.extraction_performed = TRUE],
              err |-> NoError,
              h |-> [AfterRefine(AfterFirst(AfterExtract(h), reply1))
                        EXCEPT !.completed = TRUE]]

\* the output directory does not exist
NoOutput == [exists |-> FALSE, first_response |-> Absent, refined_response |-> Absent]

\* ParameterExtractor.export_parameters: ValueError before an extraction;
\* os.mkdir raises when the directory exists; write(None) raises TypeError
\* after the file was opened
export_parameters(self, out) ==
    IF ~self.extraction_performed THEN [out |-> out, err |-> "ValueError"]
    ELSE IF out.exists THEN [out |-> out, err |-> "FileExistsError"]
    ELSE IF self.first_response = None
    THEN [out |-> [exists |-> TRUE, first_response |-> "",
                   refined_response |-> Absent],
          err |-> "TypeError"]
    ELSE IF self.refined_response = None
    THEN [out |-> [exists |-> TRUE, first_response |-> self.first_response,
                   refined_response |-> ""],
          err |-> "TypeError"]
    ELSE [out |-> [exists |-> TRUE, first_response |-> self.first_response,
                   refined_response |-> self.refined_response],
          err |-> NoError]

ConstructParameterExtractor ==
    /\ \E file_path \in Pdfs : extractor' = NewParameterExtractor(file_path)
    /\ outcome' = [op |-> "init", err |-> NoError]
    /\ progress' = NoProgress
    /\ UNCHANGED output

CallExtractText ==
    /\ \E analysis \in AnalysisOutcomes :
          LET c == PE_extract_text(extractor, analysis)
          IN  /\ extractor' = c.self
              /\ outcome' = [op |-> "extract_text", err |-> c.err]
              /\ progress' = IF c.err = NoError THEN AfterExtract(progress)
                              ELSE progress
    /\ UNCHANGED output

CallFirstQuery ==
    /\ \E reply \in AskOutcomes :
          LET c == first_query(extractor, reply)
          IN  /\ extractor' = c.self
              /\ outcome' = [op |-> "first_query", err |-> c.err]
              /\ progress' = IF c.err = NoError THEN AfterFirst(progress, reply)
                              ELSE progress
    /\ UNCHANGED output

CallRefineQuery ==
    /\ \E reply \in AskOutcomes :
          LET c == refine_query(extractor, reply)
          IN  /\ extractor' = c.self
              /\ outcome' = [op |-> "refine_query", err |-> c.err]
              /\ progress' = IF c.err = NoError THEN AfterRefine(progress)
                              ELSE progress
    /\ UNCHANGED output

CallGetParameters ==
    /\ \E analysis \in AnalysisOutcomes, reply1, reply2 \in AskOutcomes :
          LET c == get_parameters(extractor, progress, analysis, reply1, reply2)
          IN  /\ extractor' = c.self
              /\ outcome' = [op |-> "get_parameters", err |-> c.err]
              /\ progress' = c.h
    /\ UNCHANGED output

CallExportParameters ==
    /\ LET c == export_parameters(extractor, output)
       IN  /\ output' = c.out
           /\ outcome' = [op |-> "export_parameters", err |-> c.err]
    /\ UNCHANGED <<extractor, progress>>

\* no ParameterExtractor is in use
TwoIdle ==
    /\ extractor = NewParameterExtractor("d1")
    /\ outcome = [op |-> "init", err |-> NoError]
    /\ progress = NoProgress
    /\ output = NoOutput

ToolsIdle ==
    /\ ExtIdle
    /\ MetIdle
    /\ TwoIdle

(***************************************************************************)
(* rag_pipeline.py: main                                                   *)
(***************************************************************************)

\* the entries the folder may hold: the PDFs and a file that is no PDF
FolderEntries == PaperIds \cup {"notes"}
\* os.path.isfile(file_path) and file_path.lower().endswith('.pdf')
IsPdf(filename) == filename \in PaperIds
\* the target parameters of config/parameters.json
parameters == <<"q1", "q2">>
\* the chunk lists section_chunks may return for a document, one per length
ChunkLists == {[j \in 1 .. n |-> IF j % 2 = 1 THEN "a" ELSE "b"] : n \in 0 .. MaxSections}
\* what the refinement pass may reply: text json.loads rejects, an object
\* keyed by the requested parameters, an object with other keys, and JSON
\* text that is no object (null), which json.loads accepts
RefinedReplies == {"malformed", "requested_keys", "other_keys", "not_an_object"}
\* the replies json.loads turns into a dictionary
ObjectReplies == {"requested_keys", "other_keys"}
\* the columns pd.DataFrame makes of an entry of data: the keys of a
\* dictionary, the column 0 for a value that is none
ReplyKeys(reply) ==
    IF reply = "requested_keys" THEN Range(parameters)
    ELSE IF reply = "other_keys" THEN {"other"}
    ELSE {"0"}

Unset == [set |-> FALSE, chunks |-> <<>>]
NoTable == [written |-> FALSE, rows |-> <<>>]
NoCalls == [queried |-> {}, generated |-> {}, parsed |-> {}, failed |-> {}]

\* the listings of a folder: its entries, each once, in any order
Listings ==
    {l \in SeqsUpTo(FolderEntries, Cardinality(FolderEntries)) :
        \A i, j \in DOMAIN l : i # j => l[i] # l[j]}

\* not running
PipeIdle ==
    /\ pc = "idle"
    /\ listing = <<>>
    /\ rag_n = 1
    /\ fileIdx = 1
    /\ secIdx = 1
    /\ sectionsOf = [f \in FolderEntries |-> Unset]
    /\ data = <<>>
    /\ titles = <<>>
    /\ table = NoTable
    /\ calls = NoCalls

\* what a loop would do if it stopped after the first entry of the listing
LoopDoneEarly(i, files) == i > Len(files) \/ i > 1
\* a for loop over the listing has no entry left
LoopDone(i, files) == i > Len(files)

\* the first loop has run through the listing: on to the second loop
IndexingDone(i, files) == LoopDone(i, files)

\* line 45: retriever.create_db()
PipeCreateDb ==
    /\ pc = "create"
    /\ create_db
    /\ pc' = "index"
    /\ fileIdx' = 1
    /\ UNCHANGED <<listing, rag_n, secIdx, sectionsOf, data, titles, table, calls>>

\* lines 49-51: an entry that is no PDF is passed over
PipeIndexSkip ==
    /\ pc = "index"
    /\ ~IndexingDone(fileIdx, listing)
    /\ ~IsPdf(listing[fileIdx])
    /\ fileIdx' = fileIdx + 1
    /\ UNCHANGED <<ragVars, pc, listing, rag_n, secIdx, sectionsOf, data, titles,
                   table, calls>>

\* lines 52-53: extract_text and section_chunks of the next PDF; either may
\* raise, which ends main
PipeExtractText ==
    /\ pc = "index"
    /\ ~IndexingDone(fileIdx, listing)
    /\ IsPdf(listing[fileIdx])
    /\ \/ /\ pc' = "crashed"
          /\ calls' = [calls EXCEPT !.failed = @ \cup {<<listing[fileIdx], "ocr">>}]
          /\ UNCHANGED <<sectionsOf, secIdx>>
       \/ \E sections \in ChunkLists :
             /\ sectionsOf' = [sectionsOf EXCEPT ![listing[fileIdx]] =
                                   [set |-> TRUE, chunks |-> sections]]
             /\ secIdx' = 1
             /\ pc' = "embed"
             /\ UNCHANGED calls
    /\ UNCHANGED <<ragVars, listing, rag_n, fileIdx, data, titles, table>>

\* lines 54-58: the next section of the document is added under [i]
PipeEmbed ==
    /\ pc = "embed"
    /\ secIdx <= Len(sectionsOf[listing[fileIdx]].chunks)
    /\ add_paper_data(<<sectionsOf[listing[fileIdx]].chunks[secIdx]>>,
                      listing[fileIdx], Given(<<secIdx - 1>>))
    /\ IF ret'.err
       THEN /\ pc' = "crashed"
            /\ calls' = [calls EXCEPT
                           !.failed = @ \cup {<<listing[fileIdx], "embedding">>}]
            /\ UNCHANGED secIdx
       ELSE /\ pc' = "embed"
            /\ secIdx' = secIdx + 1
            /\ UNCHANGED calls
    /\ UNCHANGED <<listing, rag_n, fileIdx, sectionsOf, data, titles, table>>

\* lines 54, 59: the sections of the document are all added: next entry
PipeEmbedded ==
    /\ pc = "embed"
    /\ secIdx > Len(sectionsOf[listing[fileIdx]].chunks)
    /\ pc' = "index"
    /\ fileIdx' = fileIdx + 1
    /\ UNCHANGED <<ragVars, listing, rag_n, secIdx, sectionsOf, data, titles, table,
                   calls>>

\* lines 63-69: the first loop is over, the second starts
PipeIndexed ==
    /\ pc = "index"
    /\ IndexingDone(fileIdx, listing)
    /\ pc' = "retrieve"
    /\ fileIdx' = 1
    /\ UNCHANGED <<ragVars, listing, rag_n, secIdx, sectionsOf, data, titles, table,
                   calls>>

\* lines 69-71, 99-100: an entry that is no PDF is passed over
PipeRetrieveSkip ==
    /\ pc = "retrieve"
    /\ ~LoopDone(fileIdx, listing)
    /\ ~IsPdf(listing[fileIdx])
    /\ fileIdx' = fileIdx + 1
    /\ UNCHANGED <<ragVars, pc, listing, rag_n, secIdx, sectionsOf, data, titles,
                   table, calls>>

\* lines 73-74: the vector search for the next PDF
PipeRetrieve ==
    /\ pc = "retrieve"
    /\ ~LoopDone(fileIdx, listing)
    /\ IsPdf(listing[fileIdx])
    /\ retrieve_from_paper(parameters, listing[fileIdx], rag_n)
    /\ pc' = IF ret'.err THEN "crashed" ELSE "first"
    /\ calls' = [calls EXCEPT
                   !.queried = @ \cup {listing[fileIdx]},
                   !.failed = IF ret'.err
                              THEN @ \cup {<<listing[fileIdx], "embedding">>}
                              ELSE @]
    /\ UNCHANGED <<listing, rag_n, fileIdx, secIdx, sectionsOf, data, titles, table>>

\* lines 77-83: the first pass; ask_GPT returns a reply or raises
PipeFirstPass ==
    /\ pc = "first"
    /\ \/ /\ pc' = "second"
          /\ calls' = [calls EXCEPT
                         !.generated = @ \cup {<<listing[fileIdx], "first">>}]
       \/ /\ pc' = "crashed"
          /\ calls' = [calls EXCEPT
                         !.generated = @ \cup {<<listing[fileIdx], "first">>},
                         !.failed = @ \cup {<<listing[fileIdx], "generation">>}]
    /\ UNCHANGED <<ragVars, listing, rag_n, fileIdx, secIdx, sectionsOf, data, titles,
                   table>>

\* lines 86-98: the second pass; ask_GPT raises, or json.loads raises on
\* the reply, or the parsed reply and the file name are appended
PipeSecondPass ==
    /\ pc = "second"
    /\ \/ /\ pc' = "crashed"
          /\ calls' = [calls EXCEPT
                         !.generated = @ \cup {<<listing[fileIdx], "second">>},
                         !.failed = @ \cup {<<listing[fileIdx], "generation">>}]
          /\ UNCHANGED <<data, titles, fileIdx>>
       \/ \E refined_response \in RefinedReplies :
             IF refined_response = "malformed"
             THEN /\ pc' = "crashed"
                  /\ calls' = [calls EXCEPT
                                 !.generated = @ \cup {<<listing[fileIdx], "second">>}]
                  /\ UNCHANGED <<data, titles, fileIdx>>
             ELSE /\ calls' = [calls EXCEPT
                                 !.generated = @ \cup {<<listing[fileIdx], "second">>},
                                 !.parsed = @ \cup {<<listing[fileIdx], refined_response>>}]
                  /\ data' = Append(data, refined_response)
                  /\ titles' = Append(titles, listing[fileIdx])
                  /\ fileIdx' = fileIdx + 1
                  /\ pc' = "retrieve"
    /\ UNCHANGED <<ragVars, listing, rag_n, secIdx, sectionsOf, table>>

\* pd.DataFrame(data): a row per entry; a list that mixes dictionaries with
\* values that are none may also be refused by pandas
DataFrameRaises(entries) ==
    IF /\ \E r \in DOMAIN entries : entries[r] \in ObjectReplies
       /\ \E r \in DOMAIN entries : entries[r] \notin ObjectReplies
    THEN BOOLEAN ELSE {FALSE}

\* lines 101-113: the second loop is over: the table is built and written
PipeWrite ==
    /\ pc = "retrieve"
    /\ LoopDone(fileIdx, listing)
    /\ \E raises \in DataFrameRaises(data) :
          IF raises
          THEN /\ pc' = "crashed"
               /\ UNCHANGED table
          ELSE /\ table' = [written |-> TRUE,
                            rows |-> [r \in DOMAIN data |->
                                         [record |-> data[r], Paper |-> titles[r]]]]
               /\ pc' = "done"
    /\ UNCHANGED <<ragVars, listing, rag_n, fileIdx, secIdx, sectionsOf, data, titles,
                   calls>>

\* main is called on a folder, lines 37-44 done
PipeInit ==
    /\ pc = "create"
    /\ listing \in Listings
    /\ rag_n \in 1 .. MaxK
    /\ fileIdx = 1
    /\ secIdx = 1
    /\ sectionsOf = [f \in FolderEntries |-> Unset]
    /\ data = <<>>
    /\ titles = <<>>
    /\ table = NoTable
    /\ calls = NoCalls
    /\ collection \in {NoCollection, [exists |-> TRUE, recs |-> {}]}
    /\ handle = FALSE
    /\ ret = NoCall
    /\ sinceCreate = NoHistory
    /\ onExisting \in {"raise", "ignore"}
    /\ result_object = NoResult
    /\ segOut = NotCalled
    /\ RefIdle
    /\ ToolsIdle

PipeNext ==
    \/ PipeCreateDb /\ UNCHANGED <<segVars, refVars, toolVars>>
    \/ PipeIndexSkip /\ UNCHANGED <<segVars, refVars, toolVars>>
    \/ PipeExtractText /\ UNCHANGED <<segVars, refVars, toolVars>>
    \/ PipeEmbed /\ UNCHANGED <<segVars, refVars, toolVars>>
    \/ PipeEmbedded /\ UNCHANGED <<segVars, refVars, toolVars>>
    \/ PipeIndexed /\ UNCHANGED <<segVars, refVars, toolVars>>
    \/ PipeRetrieveSkip /\ UNCHANGED <<segVars, refVars, toolVars>>
    \/ PipeRetrieve /\ UNCHANGED <<segVars, refVars, toolVars>>
    \/ PipeFirstPass /\ UNCHANGED <<segVars, refVars, toolVars>>
    \/ PipeSecondPass /\ UNCHANGED <<segVars, refVars, toolVars>>
    \/ PipeWrite /\ UNCHANGED <<segVars, refVars, toolVars>>

SpecPipe == PipeInit /\ [][PipeNext]_vars

(***************************************************************************)
(* The specifications of the adapter and of the segmenter on their own.    *)
(***************************************************************************)

RagInit ==
    /\ collection = NoCollection
    /\ handle = FALSE
    /\ ret = NoCall
    /\ sinceCreate = NoHistory
    /\ onExisting \in {"raise", "ignore"}
    /\ result_object = NoResult
    /\ segOut = NotCalled
    /\ PipeIdle
    /\ RefIdle
    /\ ToolsIdle

RagNext ==
    \/ Construct /\ UNCHANGED <<segVars, pipeVars, refVars, toolVars>>
    \/ create_db /\ UNCHANGED <<segVars, pipeVars, refVars, toolVars>>
    \/ AddPaperData /\ UNCHANGED <<segVars, pipeVars, refVars, toolVars>>
    \/ RetrieveFromPaper /\ UNCHANGED <<segVars, pipeVars, refVars, toolVars>>

SpecRag == RagInit /\ [][RagNext]_vars

\* extract_text has stored an analysis result; section_chunks not yet called
SegInit ==
    /\ IsAnalysisResult(result_object)
    /\ segOut = NotCalled
    /\ collection = NoCollection
    /\ handle = FALSE
    /\ ret = NoCall
    /\ sinceCreate = NoHistory
    /\ onExisting = "ignore"
    /\ PipeIdle
    /\ RefIdle
    /\ ToolsIdle

SegNext == SectionChunks /\ UNCHANGED <<ragVars, pipeVars, refVars, toolVars>>

SpecSeg == SegInit /\ [][SegNext]_vars

(***************************************************************************)
(* The specification of the prompt-refinement runs.                        *)
(***************************************************************************)

RefInit ==
    /\ rpc = "idle"
    /\ runs = 0
    /\ ledgerFile \in InitialLedgers
    /\ results_df = NoTableYet
    /\ loadedRows = 0
    /\ current_iteration = 0
    /\ paramIdx = 0
    /\ docIdx = 0
    /\ improved_prompt = ""
    /\ pdf_text = ""
    /\ extracted_value = ""
    /\ judgement = NoJudgement
    /\ cacheFiles \in [Range(true_param_rows) -> {Absent, "x"}]
    /\ testOutputDir \in BOOLEAN
    /\ pdfPresent \in {{"p1", "p2"}, {"p1"}}
    /\ ocrCalls = NoOcr
    /\ recordedAt = <<>>
    /\ collection = NoCollection
    /\ handle = FALSE
    /\ ret = NoCall
    /\ sinceCreate = NoHistory
    /\ onExisting = "raise"
    /\ result_object = NoResult
    /\ segOut = NotCalled
    /\ PipeIdle
    /\ ToolsIdle

RefNext ==
    \/ RefStart /\ UNCHANGED <<ragVars, segVars, pipeVars, toolVars>>
    \/ RefGenPrompt /\ UNCHANGED <<ragVars, segVars, pipeVars, toolVars>>
    \/ RefFinish /\ UNCHANGED <<ragVars, segVars, pipeVars, toolVars>>
    \/ RefNextParam /\ UNCHANGED <<ragVars, segVars, pipeVars, toolVars>>
    \/ RefSkipMissing /\ UNCHANGED <<ragVars, segVars, pipeVars, toolVars>>
    \/ RefFetchText /\ UNCHANGED <<ragVars, segVars, pipeVars, toolVars>>
    \/ RefExtract /\ UNCHANGED <<ragVars, segVars, pipeVars, toolVars>>
    \/ RefJudge /\ UNCHANGED <<ragVars, segVars, pipeVars, toolVars>>
    \/ RefRecord /\ UNCHANGED <<ragVars, segVars, pipeVars, toolVars>>
    \/ RefRecordInterrupted /\ UNCHANGED <<ragVars, segVars, pipeVars, toolVars>>
    \/ RefDeleteCache /\ UNCHANGED <<ragVars, segVars, pipeVars, toolVars>>

SpecRefine == RefInit /\ [][RefNext]_vars

ExtInit ==
    /\ text_extractor = NewTextExtractor
    /\ analysed = <<>>
    /\ MetIdle
    /\ TwoIdle
    /\ collection = NoCollection
    /\ handle = FALSE
    /\ ret = NoCall
    /\ sinceCreate = NoHistory
    /\ onExisting = "raise"
    /\ result_object = NoResult
    /\ segOut = NotCalled
    /\ PipeIdle
    /\ RefIdle

ExtNext ==
    \/ ConstructTextExtractor
           /\ UNCHANGED <<ragVars, segVars, pipeVars, refVars, metVars, twoVars>>
    \/ ExtractText /\ UNCHANGED <<ragVars, segVars, pipeVars, refVars, metVars, twoVars>>

SpecExtract == ExtInit /\ [][ExtNext]_vars

MetInit ==
    /\ csv \in SeqsUpTo(CsvRowKinds, MaxLedgerRows)
    /\ evaluation = NotEvaluated
    /\ ExtIdle
    /\ TwoIdle
    /\ collection = NoCollection
    /\ handle = FALSE
    /\ ret = NoCall
    /\ sinceCreate = NoHistory
    /\ onExisting = "raise"
    /\ result_object = NoResult
    /\ segOut = NotCalled
    /\ PipeIdle
    /\ RefIdle

MetNext ==
    EvaluateIteration
        /\ UNCHANGED <<ragVars, segVars, pipeVars, refVars, extVars, twoVars>>

SpecMetrics == MetInit /\ [][MetNext]_vars

TwoInit ==
    /\ extractor \in {NewParameterExtractor(file_path) : file_path \in Pdfs}
    /\ outcome = [op |-> "init", err |-> NoError]
    /\ progress = NoProgress
    /\ output \in {NoOutput, [NoOutput EXCEPT !.exists = TRUE]}
    /\ ExtIdle
    /\ MetIdle
    /\ collection = NoCollection
    /\ handle = FALSE
    /\ ret = NoCall
    /\ sinceCreate = NoHistory
    /\ onExisting = "raise"
    /\ result_object = NoResult
    /\ segOut = NotCalled
    /\ PipeIdle
    /\ RefIdle

TwoNext ==
    \/ ConstructParameterExtractor
          /\ UNCHANGED <<ragVars, segVars, pipeVars, refVars, extVars, metVars>>
    \/ CallExtractText
          /\ UNCHANGED <<ragVars, segVars, pipeVars, refVars, extVars, metVars>>
    \/ CallFirstQuery
          /\ UNCHANGED <<ragVars, segVars, pipeVars, refVars, extVars, metVars>>
    \/ CallRefineQuery
          /\ UNCHANGED <<ragVars, segVars, pipeVars, refVars, extVars, metVars>>
    \/ CallGetParameters
          /\ UNCHANGED <<ragVars, segVars, pipeVars, refVars, extVars, metVars>>
    \/ CallExportParameters
          /\ UNCHANGED <<ragVars, segVars, pipeVars, refVars, extVars, metVars>>

SpecTwoStage == TwoInit /\ [][TwoNext]_vars

(***************************************************************************)
(* Properties of the vector-store adapter (checked under SpecRag).         *)
(***************************************************************************)

RecordsOf(paper_id) == {r \in collection.recs : r.paper_id = paper_id}

\* C1: whatever was indexed, every chunk retrieve_from_paper returns, for
\* each query text, is a stored chunk whose metadata paper_id is the queried
\* one and whose id was made for that paper: nothing inserted under another
\* paper_id comes back.
C1_NoCrossPaperLeak ==
    (ret.op = "retrieve" /\ ~ret.err) =>
        \A q \in DOMAIN ret.results : \A r \in ret.results[q] :
            /\ r \in collection.recs
            /\ r.paper_id = ret.paper_id
            /\ \E i \in Indices : r.id = SectionId(ret.paper_id, i)

\* a query of one paper answered from a collection holding chunks of both
C1_Witness ==
    /\ ret.op = "retrieve" /\ ~ret.err
    /\ \A p \in PaperIds : RecordsOf(p) # {}
    /\ \A q \in DOMAIN ret.results : ret.results[q] # {}

\* C6 (as claimed): re-inserting for the same (paper_id, chunk_index)
\* overwrites and does not duplicate: no two records share an id, and after
\* an add_paper_data call that returned, each chunk of the call is stored
\* under its id with the text of that call.
C6_ReinsertOverwrites ==
    /\ \A r1, r2 \in collection.recs : r1.id = r2.id => r1 = r2
    /\ (ret.op = "add" /\ ~ret.err) =>
           \A j \in DOMAIN ret.ids :
               [id |-> ret.ids[j], document |-> ret.sections[j],
                paper_id |-> ret.paper_id] \in collection.recs

\* C7: right after create_db the collection exists and holds no record,
\* whether or not a collection of that name existed and whatever it held;
\* the call does not fail.
C7_CreateDbEmpties ==
    ret.op = "create_db" =>
        /\ ~ret.err
        /\ handle
        /\ collection.exists
        /\ collection.recs = {}

\* create_db over an existing, non-empty collection
C7_Witness ==
    /\ ret.op = "create_db"
    /\ ret.existed
    /\ ret.dropped > 0

\* C8: after create_db and one insert of N chunks for a paper, the N chunks
\* are stored for it, and retrieve_from_paper for that paper with
\* n_results = k <= N returns exactly k results for each query text.
C8_ExactlyK ==
    /\ sinceCreate.st = "inserted" =>
           /\ handle
           /\ Cardinality(RecordsOf(sinceCreate.paper_id)) = sinceCreate.n
    /\ (/\ ret.op = "retrieve" /\ ~ret.err
        /\ sinceCreate.st = "inserted"
        /\ ret.paper_id = sinceCreate.paper_id
        /\ ret.n_results <= sinceCreate.n) =>
           \A q \in DOMAIN ret.query : Cardinality(ret.results[q]) = ret.n_results

\* create_db, an insert of 2 chunks, then a query with k = 1 < N
C8_Witness ==
    /\ ret.op = "retrieve" /\ ~ret.err
    /\ sinceCreate.st = "inserted"
    /\ sinceCreate.n = 2
    /\ ret.paper_id = sinceCreate.paper_id
    /\ ret.n_results = 1

(***************************************************************************)
(* Properties of section_chunks (checked under SpecSeg).                   *)
(***************************************************************************)

\* the content of the paragraph an element "/kind/n" points at by its index
\* n, read off the element as the analysis wrote it
IndexedContent(result, element, content) ==
    \E kind \in ElementKinds, n \in 0 .. Len(result.paragraphs) - 1 :
        /\ element = Element(kind, n)
        /\ content = result.paragraphs[n + 1]

C10_AbsentIndexFails ==
    (/\ segOut.called
     /\ \E i \in DOMAIN result_object.sections :
           \E j \in DOMAIN result_object.sections[i] :
               \E n \in Len(result_object.paragraphs) .. Len(ParagraphContents) :
                   result_object.sections[i][j] = Element("paragraphs", n)) =>
        /\ segOut.err
        /\ segOut.chunks = <<>>

\* a first section that is fine, then a section listing an absent paragraph
C10_Witness ==
    /\ segOut.called /\ segOut.err
    /\ result_object.paragraphs = <<"p0", "p1">>
    /\ result_object.sections =
           <<<<Element("paragraphs", 0)>>,
             <<Element("paragraphs", 1), Element("paragraphs", 2)>>>>

(***************************************************************************)
(* Properties of the RAG pipeline (checked under SpecPipe).                *)
(***************************************************************************)

\* the PDFs of the corpus folder
CorpusPdfs == {f \in Range(listing) : IsPdf(f)}

\* every section chunk of the document is in the collection, under its
\* index and its paper
AllChunksInserted(f) ==
    /\ sectionsOf[f].set
    /\ \A j \in DOMAIN sectionsOf[f].chunks :
          [id |-> SectionId(f, j - 1), document |-> sectionsOf[f].chunks[j],
           paper_id |-> f] \in collection.recs

\* the phase of the run
Phase ==
    CASE pc \in {"create", "index", "embed"} -> "INDEXING"
      [] pc \in {"retrieve", "first", "second"} -> "EXTRACTING"
      [] pc = "done" -> "DONE"
      [] OTHER -> "NONE"

\* C2: a run goes INDEXING, EXTRACTING, DONE: a retrieval query or a
\* generation call is issued only in phase EXTRACTING or later and only once
\* every PDF of the folder has all its section chunks in the collection; the
\* table is written only in phase DONE, after every PDF has been extracted.
C2_IndexThenExtractThenWrite ==
    /\ (calls.queried # {} \/ calls.generated # {}) =>
           /\ Phase # "INDEXING"
           /\ \A f \in CorpusPdfs : AllChunksInserted(f)
    /\ Phase = "EXTRACTING" => ~table.written
    /\ table.written =>
           /\ Phase = "DONE"
           /\ \A f \in CorpusPdfs :
                 /\ f \in calls.queried
                 /\ {<<f, "first">>, <<f, "second">>} \subseteq calls.generated
                 /\ f \in Range(titles)

\* a finished run over two PDFs that both have chunks
C2_Witness ==
    /\ pc = "done" /\ table.written
    /\ CorpusPdfs = PaperIds
    /\ \A f \in PaperIds : sectionsOf[f].chunks # <<>>
    /\ Len(table.rows) = 2

(***************************************************************************)
(* Properties of the prompt-refinement runs (checked under SpecRefine).    *)
(***************************************************************************)

\* The rows the run found in the ledger, and the rows it has written.
LoadedRows == SubSeq(results_df.rows, 1, loadedRows)
WrittenRows == SubSeq(results_df.rows, loadedRows + 1, Len(results_df.rows))

\* C3: the iteration number of a run is 1 when the ledger it loaded has no
\* rows and one more than the largest Iteration of the loaded rows
\* otherwise; every record the run has written, in memory and in the file,
\* carries that number, whatever parameter and document it is for.
C3_IterationFixedPerRun ==
    rpc \in Running \cup {"finished"} =>
        /\ current_iteration =
               IF loadedRows = 0 THEN 1
               ELSE MaxOf({LoadedRows[i]["Iteration"] : i \in 1 .. loadedRows}) + 1
        /\ \A i \in 1 .. Len(WrittenRows) :
               WrittenRows[i]["Iteration"] = current_iteration
        /\ \A i \in 1 .. Len(ledgerFile.rows) :
               i > loadedRows => ledgerFile.rows[i]["Iteration"] = current_iteration

\* A run over a ledger whose largest Iteration is 4 has written two
\* records, for different parameters or documents, both numbered 5.
C3_Witness ==
    /\ rpc \in Running
    /\ current_iteration = 5
    /\ loadedRows = 1
    /\ Len(WrittenRows) = 2
    /\ <<WrittenRows[1]["Parameter Name"], WrittenRows[1]["Paper Number"]>>
          # <<WrittenRows[2]["Parameter Name"], WrittenRows[2]["Paper Number"]>>
    /\ WrittenRows[2]["Iteration"] = 5

\* C4: for every paper, the document analysis has completed at most once
\* since its cache file was last deleted (or since the start).
C4_OcrAtMostOnce == \A p \in Range(true_param_rows) : ocrCalls[p] <= 1

\* C5: each update_csv_with_results call that returns leaves a table that
\* is the previous table with exactly one more row at its end, the earlier
\* rows unchanged in
\* number, order and values, in memory and in the file the call rewrites.
C5_AppendOnly ==
    [][(rpc = "record" /\ rpc' = "doc") =>
          LET n == Len(results_df.rows)
          IN  /\ results_df'.cols = results_df.cols
              /\ Len(results_df'.rows) = n + 1
              /\ \A i \in 1 .. n : results_df'.rows[i] = results_df.rows[i]
              /\ ledgerFile'.cols = results_df.cols
              /\ Len(ledgerFile'.rows) = n + 1
              /\ \A i \in 1 .. n :
                     ledgerFile'.rows[i] = to_csv(results_df).rows[i]]_vars

\* A record has just been appended to a table that already held loaded rows
\* and a record of this run.
C5_Witness ==
    /\ rpc = "doc"
    /\ loadedRows >= 1
    /\ Len(results_df.rows) >= loadedRows + 2
    /\ ledgerFile = to_csv(results_df)

(***************************************************************************)
(* Further properties of the RAG pipeline (checked under SpecPipe).        *)
(***************************************************************************)

\* C11: the output table never holds a row for a document whose refinement
\* reply was not a structured object: every row is filled from a
\* dictionary.
C11_NoRowWithoutObject ==
    table.written =>
        \A r \in DOMAIN table.rows : table.rows[r].record \in ObjectReplies

\* the PDFs of the folder whose section_chunks returned no chunk
EmptyPdfs == {f \in CorpusPdfs : sectionsOf[f].set /\ sectionsOf[f].chunks = <<>>}

\* C12: a PDF with zero chunks is not skipped: the collection holds nothing
\* for it, the retrieval scoped to it succeeds with an empty context for
\* every parameter, both generation calls are issued for it before its
\* record is appended, and a written table has a row for it.
C12_EmptyDocumentNotSkipped ==
    \A f \in EmptyPdfs :
        /\ RecordsOf(f) = {}
        /\ (pc \in {"first", "second"} /\ listing[fileIdx] = f) =>
               /\ ret.op = "retrieve" /\ ~ret.err
               /\ \A q \in DOMAIN ret.results : ret.results[q] = {}
        /\ f \in Range(titles) =>
               /\ f \in calls.queried
               /\ {<<f, "first">>, <<f, "second">>} \subseteq calls.generated
        /\ table.written =>
               \E r \in DOMAIN table.rows : table.rows[r].Paper = f

\* a written table with a row for a PDF without chunks, beside a PDF that
\* has chunks in the collection
C12_Witness ==
    /\ table.written
    /\ \E f \in EmptyPdfs, g \in CorpusPdfs :
          /\ RecordsOf(g) # {}
          /\ \E r \in DOMAIN table.rows : table.rows[r].Paper = f
          /\ {<<f, "first">>, <<f, "second">>} \subseteq calls.generated

\* the columns of the written table besides Paper
ParameterColumns == UNION {ReplyKeys(table.rows[r].record) : r \in DOMAIN table.rows}

\* C13: a written table has exactly one row per PDF of the folder, its
\* parameter columns are the requested parameter names, and each row holds
\* the record parsed for the document its Paper column names.
C13_OneRowPerPdfRequestedColumns ==
    table.written =>
        /\ Len(table.rows) = Cardinality(CorpusPdfs)
        /\ \A f \in CorpusPdfs :
               \E r \in DOMAIN table.rows : table.rows[r].Paper = f
        /\ \A r \in DOMAIN table.rows :
               <<table.rows[r].Paper, table.rows[r].record>> \in calls.parsed
        /\ (table.rows # <<>> => ParameterColumns = Range(parameters))

\* C14: after an OCR, embedding or generation call has failed for a
\* document the run is not aborted: it is still going on or it has written
\* a table that holds a row for the failing document.
C14_FailureDoesNotAbort ==
    \A c \in calls.failed :
        /\ pc # "crashed"
        /\ table.written =>
               \E r \in DOMAIN table.rows : table.rows[r].Paper = c[1]

(***************************************************************************)
(* Further properties of the prompt-refinement runs (under SpecRefine).    *)
(***************************************************************************)

LastRow(t) == t.rows[Len(t.rows)]

\* C15: for every document the loop asks the two console questions only
\* once the extraction call has returned, writes the record only once both
\* answers are in, and the record written holds that extraction and those
\* two answers; the ledger file changes in no other step.
C15_ExtractThenJudgeThenRecord ==
    [][/\ (rpc' = "judge" /\ rpc # "judge") =>
              /\ rpc = "extract"
              /\ extracted_value' \in ExtractionOutcomes
       /\ (rpc' = "record" /\ rpc # "record") =>
              /\ rpc = "judge"
              /\ judgement' \in ConsoleInputs(extracted_value)
       /\ ledgerFile' # ledgerFile => rpc = "record"
       /\ (rpc = "record" /\ rpc' = "doc") =>
              /\ Len(ledgerFile'.rows) = Len(results_df.rows) + 1
              /\ LastRow(results_df')["Extracted Parameter"] = extracted_value
              /\ LastRow(results_df')["Success/Fail"] = judgement.success_fail
              /\ LastRow(results_df')["Confusion"] = judgement.confusion_level]_vars

\* A record has been written in this run after its extraction and its two
\* console answers.
C15_Witness ==
    /\ rpc = "doc"
    /\ Len(WrittenRows) >= 1
    /\ LastRow(results_df)["Extracted Parameter"] = extracted_value
    /\ LastRow(results_df)["Success/Fail"] = judgement.success_fail
    /\ judgement.success_fail # ""

\* C16: when a run has crashed, the ledger file still holds, row for row,
\* every record the run had loaded or completed before the crash.
C16_CrashKeepsCompletedRecords ==
    rpc = "crashed" =>
        /\ Len(ledgerFile.rows) >= Len(results_df.rows)
        /\ \A i \in 1 .. Len(results_df.rows) :
               read_csv(ledgerFile).rows[i] = read_csv(to_csv(results_df)).rows[i]

\* C17: loading a ledger file without an Iteration column does not fail
\* and yields iteration number 1, whether the file has rows or not.
C17_NoIterationColumnYieldsOne ==
    [][(runs' = runs + 1 /\ "Iteration" \notin ledgerFile.cols) =>
          (rpc' = "gen" /\ current_iteration' = 1)]_vars

\* C18: loading a ledger file succeeds and returns a table with the columns
\* of the file and the required columns, the added columns holding empty
\* values in every row, the rows and the values of the columns of the file
\* as read.
C18_BackfillKeepsRows ==
    [][runs' = runs + 1 =>
          /\ rpc' = "gen"
          /\ results_df'.cols = ledgerFile.cols \cup Range(required_columns)
          /\ Len(results_df'.rows) = Len(ledgerFile.rows)
          /\ \A i \in 1 .. Len(ledgerFile.rows) :
                 \A c \in results_df'.cols :
                    IF c \in ledgerFile.cols
                    THEN results_df'.rows[i][c] = read_csv(ledgerFile).rows[i][c]
                    ELSE IF c = "Iteration"
                    THEN results_df'.rows[i][c] = IterBlank
                    ELSE results_df'.rows[i][c] = ""]_vars

\* The prompts that begin with the retrieval instructions of the
\* configuration.
PreambledPrompts == {ImprovedPrompt(param) : param \in Range(refiner_parameters)}

\* C19: the prompt of every extraction call and of every record written
\* begins with the retrieval-instructions preamble, whatever the outcome of
\* the prompt-generation call.
C19_PromptHasPreamble ==
    /\ rpc \in {"extract", "judge", "record"} =>
           improved_prompt \in PreambledPrompts
    /\ \A i \in 1 .. Len(WrittenRows) :
           rpc \in Running => WrittenRows[i]["Prompt"] \in PreambledPrompts

\* C20: every call of extract_text_from_pdf that misses the cache and runs
\* the analysis writes the cache file of the paper and returns its text.
C20_MissWritesCache ==
    [][ocrCalls' # ocrCalls /\ rpc = "doc" =>
          LET paper_number == true_param_rows[docIdx]
          IN  /\ rpc' = "extract"
              /\ cacheFiles'[paper_number] # Absent
              /\ pdf_text' = cacheFiles'[paper_number]]_vars

\* C21: when the PDF of the row the loop is at is absent, the run fails: its
\* next step is not to go on with the remaining documents.
C21_MissingPdfFailsFast ==
    [][(/\ rpc = "doc"
        /\ docIdx <= Len(true_param_rows)
        /\ true_param_rows[docIdx] \notin pdfPresent) => rpc' = "crashed"]_vars

\* C22: every record a run has written carries one of the four confusion
\* labels.
C22_RecordsCarryValidLabel ==
    rpc \in Running =>
        \A i \in 1 .. Len(WrittenRows) :
            WrittenRows[i]["Confusion"] \in ConfusionLabels

(***************************************************************************)
(* Further properties of the retriever's ids.                              *)
(***************************************************************************)

\* C25 (checked under SpecRag): after an add_paper_data call without
\* section_ids that returned, the i-th chunk of the call (0-based) is stored
\* under the id made of the paper_id and i.
C25_ChunkStoredUnderPositionId ==
    (ret.op = "add" /\ ~ret.err /\ ret.section_ids.none) =>
        \A j \in DOMAIN ret.sections :
            [id |-> SectionId(ret.paper_id, j - 1), document |-> ret.sections[j],
             paper_id |-> ret.paper_id] \in collection.recs

\* the file whose sections the pipeline has just finished adding
JustIndexed == pc = "embed" /\ secIdx > Len(sectionsOf[listing[fileIdx]].chunks)

\* the collection one add_paper_data call with all the sections of f and no
\* section_ids leaves, made on the collection as it was before f was indexed
SingleCallRecords(f) ==
    LET sections == sectionsOf[f].chunks
        n == Len(sections)
    IN  ChromaAdd(collection.recs \ RecordsOf(f), sections, PaperMetadatas(f, n),
                  PaperSectionIds(f, n, NoneArg)).recs

\* C26 (checked under SpecPipe): when the pipeline has added the sections of
\* a document one call per section with section_ids = [i], the collection
\* holds the records one call with all the sections and no section_ids
\* leaves, one record per section.
C26_PerSectionEqualsSingleCall ==
    JustIndexed =>
        /\ collection.recs = SingleCallRecords(listing[fileIdx])
        /\ Cardinality(RecordsOf(listing[fileIdx])) =
               Len(sectionsOf[listing[fileIdx]].chunks)

\* the second document of the folder indexed, both with two sections
C26_Witness ==
    /\ JustIndexed
    /\ Len(sectionsOf[listing[fileIdx]].chunks) = 2
    /\ \A p \in PaperIds : Cardinality(RecordsOf(p)) = 2

(***************************************************************************)
(* Further properties of the text extractor.                               *)
(***************************************************************************)

\* C27 (checked under SpecSeg): every content in a chunk section_chunks
\* returns is the content of a paragraph the chunk's section references with
\* a "/paragraphs/n" element; an element of another kind with index n brings
\* no paragraph content into the chunk.
C27_OnlyReferencedParagraphs ==
    (segOut.called /\ ~segOut.err) =>
        \A i \in DOMAIN segOut.chunks : \A k \in DOMAIN segOut.chunks[i] :
            segOut.chunks[i][k] # NL =>
                \E j \in DOMAIN result_object.sections[i] :
                    \E n \in 0 .. Len(result_object.paragraphs) - 1 :
                        /\ result_object.sections[i][j] = Element("paragraphs", n)
                        /\ segOut.chunks[i][k] = result_object.paragraphs[n + 1]

\* the fields a new instance has after extract_text of the document
FieldsFor(pdf_path) == extract_text(NewTextExtractor, AnalysisOf(pdf_path))

\* C28 (checked under SpecExtract): after extract_text(p) on an instance
\* that has analysed other documents before, text, tables and full_text are
\* those of p alone: what a new instance has after extract_text(p).
C28_FieldsDependOnLastDocument ==
    analysed # <<>> =>
        LET now == FieldsFor(analysed[Len(analysed)])
        IN  /\ text_extractor.text = now.text
            /\ text_extractor.tables = now.tables
            /\ text_extractor.full_text = now.full_text

(***************************************************************************)
(* Further properties of the text cache (checked under SpecRefine).        *)
(***************************************************************************)

\* the loop is about to call extract_text_from_pdf for the row's paper
AtFetch ==
    /\ rpc = "doc"
    /\ docIdx <= Len(true_param_rows)
    /\ true_param_rows[docIdx] \in pdfPresent

\* C30: a call of extract_text_from_pdf leaves every cache file that exists
\* with its content and leaves the cache file of every other paper as it
\* is, present or absent; a call that finds the paper's cache file changes
\* no file: not the cache, not test_output, not the ledger.
C30_CallKeepsCacheFiles ==
    [][AtFetch =>
          LET paper_number == true_param_rows[docIdx]
          IN  /\ \A p \in DOMAIN cacheFiles :
                    (cacheFiles[p] # Absent \/ p # paper_number) =>
                        cacheFiles'[p] = cacheFiles[p]
              /\ cacheFiles[paper_number] # Absent =>
                    /\ cacheFiles' = cacheFiles
                    /\ testOutputDir' = testOutputDir
                    /\ ledgerFile' = ledgerFile]_vars

\* the second paper read from its cache file in a run whose first paper
\* missed the cache and had its file written beside it
C30_Witness ==
    /\ rpc = "extract"
    /\ docIdx = 2
    /\ ocrCalls["p1"] = 1 /\ ocrCalls["p2"] = 0
    /\ cacheFiles["p1"] # Absent
    /\ pdf_text = cacheFiles["p2"]

(***************************************************************************)
(* Further properties of the iteration numbers (checked under SpecRefine). *)
(***************************************************************************)

\* the Iteration values of the ledger file go up, or stay, from row to row:
\* the rows of one iteration number are contiguous
IterationsInRowOrder ==
    "Iteration" \in ledgerFile.cols =>
        \A i, j \in 1 .. Len(ledgerFile.rows) :
            i < j => ledgerFile.rows[i]["Iteration"] <= ledgerFile.rows[j]["Iteration"]

\* no two runs that wrote a record wrote under the same iteration number
RunsHaveOwnIterations ==
    \A r1, r2 \in DOMAIN recordedAt :
        (r1 # r2 /\ recordedAt[r1] # 0) => recordedAt[r1] # recordedAt[r2]

\* C29: over the runs made on one ledger, the Iteration values of the rows
\* are non-decreasing in row order, the rows of a run are contiguous, and
\* two runs that both wrote a record have different iteration numbers.
C29_IterationsGrowAcrossRuns ==
    /\ IterationsInRowOrder
    /\ RunsHaveOwnIterations

(***************************************************************************)
(* Properties of the confusion metrics (checked under SpecMetrics).        *)
(***************************************************************************)

\* how many rows of the evaluated iteration carry the label
LabelledRows(label) ==
    Cardinality({i \in DOMAIN csv : /\ csv[i].Iteration = evaluation.iteration
                                     /\ csv[i].Confusion = label})

\* value is the ratio of the two counts, or the not-a-number marker when
\* the denominator is 0
IsRatio(value, numerator, denominator) ==
    IF denominator = 0 THEN value = NotANumber
    ELSE /\ value.den # 0
         /\ value.num * denominator = numerator * value.den

\* C23: the counts are those of the labels TP, TN, FP, FN among the rows of
\* the selected iteration; sensitivity is TP/(TP+FN), precision TP/(TP+FP),
\* specificity TN/(TN+FP); a ratio with denominator 0 is the not-a-number
\* marker, and the computation always yields a result.
C23_RatiosOfLabelCounts ==
    (evaluation.ran /\ ~evaluation.exited) =>
        LET m == evaluation.metrics
        IN  /\ m.TP = LabelledRows("TP") /\ m.TN = LabelledRows("TN")
            /\ m.FP = LabelledRows("FP") /\ m.FN = LabelledRows("FN")
            /\ IsRatio(m.sensitivity, m.TP, m.TP + m.FN)
            /\ IsRatio(m.precision, m.TP, m.TP + m.FP)
            /\ IsRatio(m.specificity, m.TN, m.TN + m.FP)

\* the example: labels TP, TP, FP, FN, TN give 2/3, 2/3 and 1/2
C23_Witness ==
    /\ evaluation.ran /\ ~evaluation.exited
    /\ [i \in DOMAIN csv |-> csv[i].Confusion] = <<"TP", "TP", "FP", "FN", "TN">>
    /\ Len(RowsOfIteration(csv, evaluation.iteration)) = 5
    /\ evaluation.metrics.sensitivity = [num |-> 2, den |-> 3]
    /\ evaluation.metrics.precision = [num |-> 2, den |-> 3]
    /\ evaluation.metrics.specificity = [num |-> 1, den |-> 2]

(***************************************************************************)
(* Properties of ParameterExtractor (checked under SpecTwoStage).          *)
(***************************************************************************)

\* C24: first_query raises RuntimeError when no text extraction has
\* completed, refine_query raises RuntimeError when first_query has returned
\* no response, export_parameters raises ValueError exactly when
\* get_parameters has not run to its end, and extraction_performed is true
\* only after the extraction, the first query and the refine query have
\* completed in that order.
C24_StepOrderEnforced ==
    /\ (outcome.op = "first_query" /\ progress.stage = 0) =>
           outcome.err = "RuntimeError"
    /\ (outcome.op = "refine_query" /\ ~progress.responded) =>
           outcome.err = "RuntimeError"
    /\ outcome.op = "export_parameters" =>
           (outcome.err = "ValueError" <=> ~progress.completed)
    /\ extractor.extraction_performed =>
           /\ progress.stage = 3
           /\ progress.completed

\* the three steps called by hand in order, then export_parameters: it
\* raises ValueError, the flag being set by get_parameters alone
C24_Witness ==
    /\ outcome = [op |-> "export_parameters", err |-> "ValueError"]
    /\ progress.stage = 3
    /\ extractor.refined_response = "answer"
    /\ ~extractor.extraction_performed

====
